---- MODULE Spec2Model ----
(***************************************************************************)
(* TODO CRUD API v2.0 (src/main.py): the FastAPI request handlers over the *)
(* user table and the todo table, with bearer-token authentication.        *)
(*                                                                         *)
(* The handlers are in src/main.py.  The table definitions and the session *)
(* (database.py) and the credential and token functions (auth.py) are      *)
(* imported by main.py and are modelled from the specification; they are   *)
(* marked as such where they are defined.                                  *)
(***************************************************************************)
EXTENDS Integers, Sequences, FiniteSets, TLC

\* ---------------------------------------------------------------- bounds
MaxTodos == 2        \* create requests the store is asked to serve
MaxUsers == 3        \* rows the user table may hold
MaxTicks == 1        \* clock ticks
TickMinutes == 2     \* minutes the clock advances in one tick

\* ---------------------------------------------------------------- inputs
Usernames == {"alice", "bob"}
Passwords == {"pw", "other"}

\* JSON bodies of POST /register.
UserCreate ==
    { [username |-> "alice", email |-> "alice@x.com", password |-> "pw"],
      [username |-> "bob",   email |-> "bob@x.com",   password |-> "pw"],
      [username |-> "bob",   email |-> "alice@x.com", password |-> "pw"] }

None  == "<None>"
Slots == {"r1", "r2"}

\* Token lifetime in clock ticks (auth.py, imported at main.py line 17).
ACCESS_TOKEN_EXPIRE_MINUTES == 1

\* The ids a request path may name.
TodoIds == 1..MaxTodos

\* JSON bodies of POST /todos and PUT /todos/{id}: one that leaves out
\* description and completed and carries an id of its own, one that gives
\* every field, and one that leaves out the title.
Payloads ==
    { [title |-> "buy milk", id |-> 1],
      [title |-> "call", description |-> "at 5", completed |-> TRUE],
      [description |-> "at 5"] }

VARIABLES
    users,       \* the user table: a sequence of rows, in insertion order
    todos,       \* the todo table: a sequence of rows, in insertion order
    nextTodoId,  \* the todo table's id sequence
    now,         \* the clock, in minutes
    held,        \* the bearer token the client holds (NoToken before a login)
    reg,         \* reg[s]: the register request in flight in slot s
    resp,        \* the response on its way to the client (NoResp if none)
    assigned     \* history: the ids the todo table has assigned

vars == <<users, todos, nextTodoId, now, held, reg, resp, assigned>>

\* ------------------------------------------------------------ responses
NoToken == [sub |-> None, exp |-> 0, sig |-> "none"]
NoResp  == [op |-> "none", status |-> 0, user |-> 0, id |-> 0, body |-> <<>>]
Idle    == [pc |-> "idle", username |-> None, email |-> None, password |-> None]

Response(op, status, user, id, body) ==
    [op |-> op, status |-> status, user |-> user, id |-> id, body |-> body]

\* HTTPException(status_code=..., detail=...)
HTTPException(op, status, user, id, detail) ==
    Response(op, status, user, id, [detail |-> detail])

\* --------------------------------------------------------- user table
Min(S) == CHOOSE x \in S : \A y \in S : x <= y

\* db.query(UserModel).filter(UserModel.username == username).first()
UserByUsername(username) ==
    LET hits == {i \in 1..Len(users) : users[i].username = username}
    IN  IF hits = {} THEN 0 ELSE Min(hits)

\* Mutant: register without its email query.
UserByEmail_Skipped(email) == 0

\* db.query(UserModel).filter(UserModel.email == email).first()
UserByEmail(email) ==
    LET hits == {i \in 1..Len(users) : users[i].email = email}
    IN  IF hits = {} THEN 0 ELSE Min(hits)

\* auth.get_password_hash: a one-way hash; the plaintext is not retained.
get_password_hash(password) == <<"hash", password>>

\* auth.verify_password: hash the supplied password and compare.
verify_password(password, hashed) == get_password_hash(password) = hashed

\* UserModel(username=..., email=..., hashed_password=...); the id is the
\* table's next key.
UserModel(username, email, password) ==
    [id |-> Len(users) + 1, username |-> username, email |-> email,
     hashed_password |-> get_password_hash(password)]

\* Mutant: a user table without unique columns.
UniqueViolation_Off(row) == FALSE

\* The user table's unique columns (database.py): username and email.
UniqueViolation(row) ==
    \E i \in 1..Len(users) :
        users[i].username = row.username \/ users[i].email = row.email

\* response_model=User: the row without its password hash.
UserOut(row) == [id |-> row.id, username |-> row.username, email |-> row.email]

\* --------------------------------------------------------------- tokens
\* auth.create_access_token(data={"sub": username}, expires_delta=ttl)
create_access_token(username, ttl) ==
    [sub |-> username, exp |-> now + ttl, sig |-> "signed"]

\* A token that names a user and is not signed with the server's key.
Forged == [sub |-> "alice", exp |-> now + ACCESS_TOKEN_EXPIRE_MINUTES, sig |-> "forged"]

\* What a request may carry in its Authorization header.
Credentials == {NoToken, held, Forged}

\* auth.authenticate_user(db, username, password): the user row's index, or 0.
authenticate_user(username, password) ==
    LET i == UserByUsername(username)
    IN  IF i = 0 THEN 0
        ELSE IF verify_password(password, users[i].hashed_password) THEN i ELSE 0

\* auth.get_current_active_user: the index of the user row the bearer token
\* resolves to, or 0 (the request is answered 401 before the handler runs).
get_current_active_user(cred) ==
    IF cred.sig # "signed" THEN 0
    ELSE IF now > cred.exp THEN 0
    ELSE UserByUsername(cred.sub)

Unauthenticated(op) ==
    HTTPException(op, 401, 0, 0, "Could not validate credentials")

\* ---------------------------------------------------------- todo table
\* TodoBase: title is required; description defaults to None, completed to False.
TodoBaseValid(payload) == "title" \in DOMAIN payload

TodoBase(payload) ==
    [title       |-> payload.title,
     description |-> IF "description" \in DOMAIN payload THEN payload.description ELSE None,
     completed   |-> IF "completed" \in DOMAIN payload THEN payload.completed ELSE FALSE]

\* Mutant: the key after the largest one present, which gives the id of a
\* removed last row again.
NewTodoId_Reuse ==
    IF todos = <<>> THEN 1
    ELSE 1 + (CHOOSE m \in {todos[i].id : i \in 1..Len(todos)} :
                 \A i \in 1..Len(todos) : todos[i].id <= m)

\* The id the todo table gives a new row (database.py): the next of its sequence.
NewTodoId == nextTodoId

\* Mutant: completed is not passed on, and the column's default stands.
TodoModel_DefaultCompleted(todo, user_id) ==
    [id |-> NewTodoId, title |-> todo.title, description |-> todo.description,
     completed |-> FALSE, created_at |-> now, user_id |-> user_id]

\* TodoModel(title=..., description=..., completed=..., user_id=current_user.id);
\* the table sets id and created_at when the row is inserted.
TodoModel(todo, user_id) ==
    [id |-> NewTodoId, title |-> todo.title, description |-> todo.description,
     completed |-> todo.completed, created_at |-> now, user_id |-> user_id]

\* created_at as the response carries it (created_at: str).
Timestamp(t) == <<"t", t>>

\* response_model=Todo: id, title, description, completed, created_at.
Todo(row) ==
    [id |-> row.id, title |-> row.title, description |-> row.description,
     completed |-> row.completed, created_at |-> Timestamp(row.created_at)]

\* Mutant: the query without its owner filter.
OwnedTodo_AnyOwner(todo_id, user_id) ==
    LET hits == {i \in 1..Len(todos) : todos[i].id = todo_id}
    IN  IF hits = {} THEN 0 ELSE Min(hits)

\* db.query(TodoModel).filter(TodoModel.id == todo_id,
\*                            TodoModel.user_id == current_user.id).first():
\* the position of the first such row, or 0.
OwnedTodo(todo_id, user_id) ==
    LET hits == {i \in 1..Len(todos) :
                    todos[i].id = todo_id /\ todos[i].user_id = user_id}
    IN  IF hits = {} THEN 0 ELSE Min(hits)

\* db.query(TodoModel).filter(TodoModel.user_id == current_user.id).all()
OwnedTodos(user_id) ==
    LET mine(row) == row.user_id = user_id IN SelectSeq(todos, mine)

\* List[Todo]
TodoList(rows) == [i \in 1..Len(rows) |-> Todo(rows[i])]

\* Mutant: an update that also stamps the row with the current time.
UpdatedRow_Touch(row, upd) ==
    [row EXCEPT !.title = upd.title, !.description = upd.description,
                !.completed = upd.completed, !.created_at = now]

\* todo.title = ...; todo.description = ...; todo.completed = ...
UpdatedRow(row, upd) ==
    [row EXCEPT !.title = upd.title, !.description = upd.description,
                !.completed = upd.completed]

\* Mutant: todo.completed = True
ToggledRow_SetTrue(row) == [row EXCEPT !.completed = TRUE]

\* todo.completed = not todo.completed
ToggledRow(row) == [row EXCEPT !.completed = ~row.completed]

\* Mutant: the delete never reaches the table.
WithoutRow_Kept(i) == todos

\* db.delete(todo); db.commit(): the table without the row at position i.
WithoutRow(i) ==
    [j \in 1..(Len(todos) - 1) |-> IF j < i THEN todos[j] ELSE todos[j + 1]]

\* Mutant: db.query(TodoModel).delete(), without the owner filter.
WithoutTodosOf_Everyone(user_id) == <<>>

\* db.query(TodoModel).filter(TodoModel.user_id == current_user.id).delete()
WithoutTodosOf(user_id) ==
    LET others(row) == row.user_id # user_id IN SelectSeq(todos, others)

\* ------------------------------------------------------------------ Init
Init ==
    /\ users = <<>>
    /\ todos = <<>>
    /\ nextTodoId = 1
    /\ now = 0
    /\ held = NoToken
    /\ reg = [s \in Slots |-> Idle]
    /\ resp = NoResp
    /\ assigned = {}

\* ------------------------------------------------------- auth endpoints
\* POST /register
register(username, email, password) ==
    /\ resp = NoResp
    /\ IF UserByUsername(username) # 0
       THEN /\ resp' = HTTPException("register", 400, 0, 0, "Username already registered")
            /\ users' = users
       ELSE IF UserByEmail(email) # 0
       THEN /\ resp' = HTTPException("register", 400, 0, 0, "Email already registered")
            /\ users' = users
       ELSE LET new_user == UserModel(username, email, password) IN
            IF UniqueViolation(new_user)
            THEN /\ resp' = HTTPException("register", 500, 0, 0, "IntegrityError")
                 /\ users' = users
            ELSE /\ Len(users) < MaxUsers
                 /\ users' = Append(users, new_user)
                 /\ resp' = Response("register", 200, new_user.id, 0, UserOut(new_user))
    /\ UNCHANGED <<todos, nextTodoId, now, held, reg, assigned>>

\* POST /token
login(username, password) ==
    LET user == authenticate_user(username, password) IN
    /\ resp = NoResp
    /\ IF user = 0
       THEN /\ resp' = HTTPException("login", 401, 0, 0, "Incorrect username or password")
            /\ held' = held
       ELSE LET access_token ==
                    create_access_token(users[user].username, ACCESS_TOKEN_EXPIRE_MINUTES)
            IN  /\ resp' = Response("login", 200, user, 0,
                                    [access_token |-> access_token, token_type |-> "bearer"])
                /\ held' = access_token
    /\ UNCHANGED <<users, todos, nextTodoId, now, reg, assigned>>

\* GET /users/me
read_users_me(cred) ==
    LET current_user == get_current_active_user(cred) IN
    /\ resp = NoResp
    /\ resp' = IF current_user = 0 THEN Unauthenticated("me")
               ELSE Response("me", 200, current_user, 0, UserOut(users[current_user]))
    /\ UNCHANGED <<users, todos, nextTodoId, now, held, reg, assigned>>

\* ------------------------------------------------------- todo endpoints
\* POST /todos
create_todo(cred, payload) ==
    LET current_user == get_current_active_user(cred) IN
    /\ resp = NoResp
    /\ IF current_user = 0
       THEN /\ resp' = Unauthenticated("create")
            /\ UNCHANGED <<todos, nextTodoId, assigned>>
       ELSE IF ~TodoBaseValid(payload)
       THEN /\ resp' = HTTPException("create", 422, current_user, 0, "field required")
            /\ UNCHANGED <<todos, nextTodoId, assigned>>
       ELSE LET new_todo == TodoModel(TodoBase(payload), users[current_user].id) IN
            /\ nextTodoId <= MaxTodos
            /\ todos' = Append(todos, new_todo)
            /\ nextTodoId' = nextTodoId + 1
            /\ assigned' = assigned \cup {new_todo.id}
            /\ resp' = Response("create", 200, current_user, new_todo.id, Todo(new_todo))
    /\ UNCHANGED <<users, now, held, reg>>

\* Mutant: GET /todos without the dependency on the current user.
get_all_todos_Open(cred) ==
    /\ resp = NoResp
    /\ resp' = Response("list", 200, 0, 0, TodoList(todos))
    /\ UNCHANGED <<users, todos, nextTodoId, now, held, reg, assigned>>

\* GET /todos
get_all_todos(cred) ==
    LET current_user == get_current_active_user(cred) IN
    /\ resp = NoResp
    /\ resp' = IF current_user = 0 THEN Unauthenticated("list")
               ELSE Response("list", 200, current_user, 0,
                             TodoList(OwnedTodos(users[current_user].id)))
    /\ UNCHANGED <<users, todos, nextTodoId, now, held, reg, assigned>>

\* GET /todos/{todo_id}: what the handler answers in the current state.
get_todo_response(cred, todo_id) ==
    LET current_user == get_current_active_user(cred) IN
    IF current_user = 0 THEN Unauthenticated("get")
    ELSE LET todo == OwnedTodo(todo_id, users[current_user].id) IN
         IF todo = 0
         THEN HTTPException("get", 404, current_user, todo_id, "TODO not found")
         ELSE Response("get", 200, current_user, todo_id, Todo(todos[todo]))

\* GET /todos/{todo_id}
get_todo(cred, todo_id) ==
    /\ resp = NoResp
    /\ resp' = get_todo_response(cred, todo_id)
    /\ UNCHANGED <<users, todos, nextTodoId, now, held, reg, assigned>>

\* PUT /todos/{todo_id}
update_todo(cred, todo_id, payload) ==
    LET current_user == get_current_active_user(cred) IN
    /\ resp = NoResp
    /\ IF current_user = 0
       THEN /\ resp' = Unauthenticated("update")
            /\ todos' = todos
       ELSE IF ~TodoBaseValid(payload)
       THEN /\ resp' = HTTPException("update", 422, current_user, todo_id, "field required")
            /\ todos' = todos
       ELSE LET todo == OwnedTodo(todo_id, users[current_user].id) IN
            IF todo = 0
            THEN /\ resp' = HTTPException("update", 404, current_user, todo_id, "TODO not found")
                 /\ todos' = todos
            ELSE /\ todos' = [todos EXCEPT ![todo] = UpdatedRow(todos[todo], TodoBase(payload))]
                 /\ resp' = Response("update", 200, current_user, todo_id, Todo(todos'[todo]))
    /\ UNCHANGED <<users, nextTodoId, now, held, reg, assigned>>

\* PATCH /todos/{todo_id}
toggle_todo(cred, todo_id) ==
    LET current_user == get_current_active_user(cred) IN
    /\ resp = NoResp
    /\ IF current_user = 0
       THEN /\ resp' = Unauthenticated("toggle")
            /\ todos' = todos
       ELSE LET todo == OwnedTodo(todo_id, users[current_user].id) IN
            IF todo = 0
            THEN /\ resp' = HTTPException("toggle", 404, current_user, todo_id, "TODO not found")
                 /\ todos' = todos
            ELSE /\ todos' = [todos EXCEPT ![todo] = ToggledRow(todos[todo])]
                 /\ resp' = Response("toggle", 200, current_user, todo_id, Todo(todos'[todo]))
    /\ UNCHANGED <<users, nextTodoId, now, held, reg, assigned>>

\* DELETE /todos/{todo_id}
delete_todo(cred, todo_id) ==
    LET current_user == get_current_active_user(cred) IN
    /\ resp = NoResp
    /\ IF current_user = 0
       THEN /\ resp' = Unauthenticated("delete")
            /\ todos' = todos
       ELSE LET todo == OwnedTodo(todo_id, users[current_user].id) IN
            IF todo = 0
            THEN /\ resp' = HTTPException("delete", 404, current_user, todo_id, "TODO not found")
                 /\ todos' = todos
            ELSE /\ todos' = WithoutRow(todo)
                 /\ resp' = Response("delete", 200, current_user, todo_id,
                                     [message |-> "TODO deleted successfully",
                                      deleted_todo |-> todos[todo]])
    /\ UNCHANGED <<users, nextTodoId, now, held, reg, assigned>>

\* DELETE /todos
clear_all_todos(cred) ==
    LET current_user == get_current_active_user(cred) IN
    /\ resp = NoResp
    /\ IF current_user = 0
       THEN /\ resp' = Unauthenticated("clear")
            /\ todos' = todos
       ELSE /\ todos' = WithoutTodosOf(users[current_user].id)
            /\ resp' = Response("clear", 200, current_user, 0,
                                [message |-> "All TODOs cleared"])
    /\ UNCHANGED <<users, nextTodoId, now, held, reg, assigned>>

\* ------------------------------------------------------------ the client
\* The client receives the response; it sends its next request after that.
Deliver ==
    /\ resp # NoResp
    /\ resp' = NoResp
    /\ UNCHANGED <<users, todos, nextTodoId, now, held, reg, assigned>>

\* The clock advances between requests.
Tick ==
    /\ resp = NoResp
    /\ now < MaxTicks * TickMinutes
    /\ now' = now + TickMinutes
    /\ UNCHANGED <<users, todos, nextTodoId, held, reg, resp, assigned>>

Next ==
    \/ \E user \in UserCreate : register(user.username, user.email, user.password)
    \/ \E u \in Usernames, p \in Passwords : login(u, p)
    \/ \E cred \in Credentials : read_users_me(cred)
    \/ \E cred \in Credentials, payload \in Payloads : create_todo(cred, payload)
    \/ \E cred \in Credentials : get_all_todos(cred)
    \/ \E cred \in Credentials, id \in TodoIds : get_todo(cred, id)
    \/ \E cred \in Credentials, id \in TodoIds, payload \in Payloads :
            update_todo(cred, id, payload)
    \/ \E cred \in Credentials, id \in TodoIds : toggle_todo(cred, id)
    \/ \E cred \in Credentials, id \in TodoIds : delete_todo(cred, id)
    \/ \E cred \in Credentials : clear_all_todos(cred)
    \/ Deliver
    \/ Tick

Spec == Init /\ [][Next]_vars

\* ------------------------------------------- register requests in flight
\* POST /register, one statement at a time, for requests served at once:
\* the username query, the email query, then the insert and its commit.
register_query_username(s, username, email, password) ==
    /\ reg[s].pc = "idle"
    /\ IF UserByUsername(username) # 0
       THEN /\ resp = NoResp
            /\ resp' = HTTPException("register", 400, 0, 0, "Username already registered")
            /\ reg' = reg
       ELSE /\ reg' = [reg EXCEPT ![s] = [pc |-> "email", username |-> username,
                                           email |-> email, password |-> password]]
            /\ resp' = resp
    /\ UNCHANGED <<users, todos, nextTodoId, now, held, assigned>>

register_query_email(s) ==
    /\ reg[s].pc = "email"
    /\ IF UserByEmail(reg[s].email) # 0
       THEN /\ resp = NoResp
            /\ resp' = HTTPException("register", 400, 0, 0, "Email already registered")
            /\ reg' = [reg EXCEPT ![s] = Idle]
       ELSE /\ reg' = [reg EXCEPT ![s].pc = "insert"]
            /\ resp' = resp
    /\ UNCHANGED <<users, todos, nextTodoId, now, held, assigned>>

register_commit(s) ==
    LET new_user == UserModel(reg[s].username, reg[s].email, reg[s].password) IN
    /\ reg[s].pc = "insert"
    /\ resp = NoResp
    /\ IF UniqueViolation(new_user)
       THEN /\ resp' = HTTPException("register", 500, 0, 0, "IntegrityError")
            /\ users' = users
       ELSE /\ Len(users) < MaxUsers
            /\ users' = Append(users, new_user)
            /\ resp' = Response("register", 200, new_user.id, 0, UserOut(new_user))
    /\ reg' = [reg EXCEPT ![s] = Idle]
    /\ UNCHANGED <<todos, nextTodoId, now, held, assigned>>

NextRace ==
    \/ \E s \in Slots, user \in UserCreate :
            register_query_username(s, user.username, user.email, user.password)
    \/ \E s \in Slots : register_query_email(s)
    \/ \E s \in Slots : register_commit(s)
    \/ Deliver

SpecRace == Init /\ [][NextRace]_vars

\* =============================================================== claims
TodoOps == {"create", "list", "get", "update", "toggle", "delete", "clear"}
ById    == {"get", "update", "toggle", "delete"}

\* The step answers a request to `op`.
Answered(op) == resp = NoResp /\ resp'.op = op

\* The positions of the rows with an id, and of the rows of other owners.
RowsWithId(rows, id)    == {i \in 1..Len(rows) : rows[i].id = id}
RowsOfOthers(rows, uid) == {i \in 1..Len(rows) : rows[i].user_id # uid}

\* A bearer token resolves when the server signed it, it has not expired and
\* it names a registered user.
Resolves(cred) ==
    /\ cred.sig = "signed"
    /\ now <= cred.exp
    /\ \E i \in 1..Len(users) : users[i].username = cred.sub

\* What a JSON body supplies for the three fields of a todo.
Supplied(payload) ==
    [title       |-> payload.title,
     description |-> IF "description" \in DOMAIN payload THEN payload.description ELSE None,
     completed   |-> IF "completed" \in DOMAIN payload THEN payload.completed ELSE FALSE]

\* ------------------------------------------------------------------- C1
C1_Step ==
    (resp = NoResp /\ resp'.op \in TodoOps /\ resp'.user # 0) =>
        LET caller == users[resp'.user].id
            others == RowsOfOthers(todos, caller)
        IN  \* every row of another owner is still there, as it was
            /\ Len(todos') >= Cardinality(others)
            /\ \A i \in others : \E j \in 1..Len(todos') : todos'[j] = todos[i]
            \* get, toggle and delete of another owner's todo: 404, nothing changes
            /\ (resp'.op \in {"get", "toggle", "delete"}
                  /\ \E i \in others : todos[i].id = resp'.id)
                 => (resp'.status = 404 /\ todos' = todos)
            \* update of another owner's todo with a valid body likewise
            /\ \A cred \in Credentials, id \in TodoIds, payload \in Payloads :
                 (update_todo(cred, id, payload) /\ "title" \in DOMAIN payload
                    /\ \E i \in others : todos[i].id = id)
                 => (resp'.status = 404 /\ todos' = todos)
            \* list answers none of them
            /\ resp'.op = "list" =>
                 /\ resp'.status = 200
                 /\ \A k \in 1..Len(resp'.body) : \A i \in others :
                        resp'.body[k].id # todos[i].id

\* C1: a todo is never listed for, and never returned to, changed or removed
\* by, a user who does not own it: get, update, toggle and delete of another
\* user's todo answer 404 and leave the todo table as it was.
C1_OwnerIsolation == [][C1_Step]_vars

\* A registered user was answered 404 for a todo that exists and is another's.
C1_Witness ==
    /\ resp.op \in ById
    /\ resp.status = 404
    /\ resp.user # 0
    /\ \E i \in 1..Len(todos) :
          todos[i].id = resp.id /\ todos[i].user_id # users[resp.user].id

\* ------------------------------------------------------------------- C2
C2_Step ==
    (Answered("clear") /\ resp'.user # 0) =>
        LET caller == users[resp'.user].id
            others == RowsOfOthers(todos, caller)
        IN  /\ resp'.status = 200
            /\ \A j \in 1..Len(todos') : todos'[j].user_id # caller
            /\ Len(todos') = Cardinality(others)
            /\ \A i \in others : \E j \in 1..Len(todos') : todos'[j] = todos[i]
            /\ \A uid \in 1..MaxUsers : uid = caller => OwnedTodos(uid)' = <<>>

\* C2: clear_all removes every todo of its caller and no todo of anyone else.
C2_ClearAll == [][C2_Step]_vars

\* A clear was answered, a todo was removed and another owner's todo is left.
C2_Witness ==
    /\ resp.op = "clear"
    /\ resp.status = 200
    /\ todos # <<>>
    /\ \E id \in assigned : RowsWithId(todos, id) = {}

\* ------------------------------------------------------------------- C3
C3_Step ==
    /\ \A user \in UserCreate :
          (register(user.username, user.email, user.password)
             /\ \E i \in 1..Len(users) :
                   users[i].username = user.username \/ users[i].email = user.email)
          => (resp'.status = 400 /\ users' = users)
    /\ (Answered("register") /\ resp'.status # 200) => users' = users
    /\ Answered("register") => \A i \in 1..Len(users) :
                                   i <= Len(users') /\ users'[i] = users[i]

\* C3: register answers 400 when a stored user has the username or the email,
\* and a register that fails adds no user and changes none.
C3_RegisterConflict == [][C3_Step]_vars

\* A register was refused for its email, the username being free.
C3_Witness ==
    /\ resp.op = "register"
    /\ resp.status = 400
    /\ resp.body.detail = "Email already registered"
    /\ users # <<>>

\* ------------------------------------------------------------------- C4
\* The request was refused before it read or changed anything.
C4_Rejected ==
    /\ resp'.status = 401
    /\ resp'.user = 0
    /\ DOMAIN resp'.body = {"detail"}
    /\ todos' = todos
    /\ nextTodoId' = nextTodoId

C4_Step ==
    /\ \A cred \in Credentials : ~Resolves(cred) =>
          /\ \A payload \in Payloads : create_todo(cred, payload) => C4_Rejected
          /\ get_all_todos(cred) => C4_Rejected
          /\ \A id \in TodoIds : get_todo(cred, id) => C4_Rejected
          /\ \A id \in TodoIds, payload \in Payloads :
                update_todo(cred, id, payload) => C4_Rejected
          /\ \A id \in TodoIds : toggle_todo(cred, id) => C4_Rejected
          /\ \A id \in TodoIds : delete_todo(cred, id) => C4_Rejected
          /\ clear_all_todos(cred) => C4_Rejected
    /\ (resp = NoResp /\ resp'.op \in TodoOps /\ resp'.user = 0) => C4_Rejected

\* C4: a todo request without a bearer token that resolves to a registered
\* user is answered 401, carries no todo and leaves the todo table as it was.
C4_Unauthenticated == [][C4_Step]_vars

\* A todo request was refused while the table held todos.
C4_Witness ==
    /\ resp.op \in TodoOps
    /\ resp.status = 401
    /\ todos # <<>>

\* ------------------------------------------------------------------- C5
C5_Step ==
    \* a delete that succeeds removes the caller's row and answers it
    /\ (Answered("delete") /\ resp'.status = 200) =>
          /\ Len(todos') = Len(todos) - 1
          /\ RowsWithId(todos', resp'.id) = {}
          /\ \E k \in RowsWithId(todos, resp'.id) :
                /\ todos[k].user_id = users[resp'.user].id
                /\ resp'.body.deleted_todo = todos[k]
    \* the same caller's get of that id is then answered 404
    /\ \A cred \in Credentials, id \in TodoIds :
          (delete_todo(cred, id) /\ resp'.status = 200) =>
              get_todo_response(cred, id)'.status = 404
    \* get and delete of an id that is not in the table answer 404
    /\ (resp = NoResp /\ resp'.op \in {"get", "delete"} /\ resp'.user # 0
          /\ RowsWithId(todos, resp'.id) = {})
         => (resp'.status = 404 /\ todos' = todos)

\* C5: a delete that succeeds removes the todo and answers the row as it was;
\* get and delete of that id by the same user then answer 404.
C5_DeleteThenNotFound == [][C5_Step]_vars

\* The only user deleted todo 2 (todo 1, which is older, is still there, so
\* no clear removed it) and was answered 404 when deleting it again.
C5_Witness ==
    /\ Len(users) = 1
    /\ resp.op = "delete"
    /\ resp.status = 404
    /\ resp.user = 1
    /\ resp.id = 2
    /\ 2 \in assigned
    /\ RowsWithId(todos, 2) = {}
    /\ RowsWithId(todos, 1) # {}

\* ------------------------------------------------------------------- C6
C6_Step ==
    (Answered("toggle") /\ resp'.status = 200) =>
        /\ Len(todos') = Len(todos)
        /\ \E k \in RowsWithId(todos, resp'.id) :
              /\ todos[k].user_id = users[resp'.user].id
              /\ todos'[k].completed = ~todos[k].completed
              /\ todos'[k].title = todos[k].title
              /\ todos'[k].description = todos[k].description
              /\ resp'.body.completed = ~todos[k].completed
              /\ resp'.body.title = todos[k].title
              /\ resp'.body.description = todos[k].description
              /\ \A j \in 1..Len(todos) : j # k => todos'[j] = todos[j]
              \* the next toggle finds the same row and gives back the first one
              /\ \A id \in TodoIds, uid \in 1..MaxUsers :
                    (id = resp'.id /\ uid = todos[k].user_id) => OwnedTodo(id, uid)' = k
              /\ ToggledRow(todos'[k]).completed = todos[k].completed
              /\ ToggledRow(todos'[k]) = todos[k]

\* C6: a toggle negates completed and leaves title and description alone, and
\* a second toggle gives back the row the first one found.
C6_ToggleInvolution == [][C6_Step]_vars

\* A todo created with completed false ("buy milk" is never supplied with
\* completed true) was toggled to true and toggled again, back to false.
C6_Witness ==
    /\ resp.op = "toggle"
    /\ resp.status = 200
    /\ resp.body.title = "buy milk"
    /\ resp.body.completed = FALSE

\* ------------------------------------------------------------------- C7
C7_Step ==
    \A cred \in Credentials, payload \in Payloads :
        (create_todo(cred, payload) /\ resp'.status = 200) =>
            \A id \in TodoIds : id = resp'.id =>
                LET got == get_todo_response(cred, id)' IN
                /\ got.status = 200
                /\ got.user = resp'.user
                /\ got.body.id = id
                /\ got.body.title = Supplied(payload).title
                /\ got.body.description = Supplied(payload).description
                /\ got.body.completed = Supplied(payload).completed
                /\ \E k \in RowsWithId(todos', id) :
                      todos'[k].user_id = users[resp'.user].id

\* C7: after a create, get of the returned id by the same user answers the
\* title, description and completed that the create supplied (completed false
\* and description None when left out), on a todo owned by that user.
C7_CreateThenGet == [][C7_Step]_vars

\* A create that supplied completed = true was answered.
C7_Witness ==
    /\ resp.op = "create"
    /\ resp.status = 200
    /\ resp.body.completed = TRUE
    /\ resp.body.description = "at 5"

\* ------------------------------------------------------------------- C8
C8_Step ==
    \* no step changes the owner or created_at of a todo that stays
    /\ \A i \in 1..Len(todos), j \in 1..Len(todos') :
          todos[i].id = todos'[j].id =>
              /\ todos'[j].user_id = todos[i].user_id
              /\ todos'[j].created_at = todos[i].created_at
    \* update and toggle keep every row in its place, with its id
    /\ (resp = NoResp /\ resp'.op \in {"update", "toggle"}) =>
          /\ Len(todos') = Len(todos)
          /\ \A k \in 1..Len(todos) : todos'[k].id = todos[k].id
    \* update replaces title, description and completed of the one row
    /\ \A cred \in Credentials, id \in TodoIds, payload \in Payloads :
          (update_todo(cred, id, payload) /\ resp'.status = 200) =>
              \E k \in RowsWithId(todos, id) :
                  /\ todos'[k] = [id          |-> todos[k].id,
                                  title       |-> Supplied(payload).title,
                                  description |-> Supplied(payload).description,
                                  completed   |-> Supplied(payload).completed,
                                  created_at  |-> todos[k].created_at,
                                  user_id     |-> todos[k].user_id]
                  /\ \A j \in 1..Len(todos) : j # k => todos'[j] = todos[j]
    \* toggle changes nothing but completed
    /\ (Answered("toggle") /\ resp'.status = 200) =>
          \A k \in 1..Len(todos) :
              todos'[k] = [todos[k] EXCEPT !.completed = todos'[k].completed]

\* C8: while a todo exists its id, created_at and owner never change; update
\* replaces exactly title, description and completed; toggle changes only
\* completed.
C8_ImmutableFields == [][C8_Step]_vars

\* A todo was updated after the clock had moved on from its creation.
C8_Witness ==
    /\ resp.op = "update"
    /\ resp.status = 200
    /\ resp.body.created_at # Timestamp(now)

\* ------------------------------------------------------------------- C9
C9_Step ==
    /\ \A i, j \in 1..Len(todos') : i # j => todos'[i].id # todos'[j].id
    /\ (Answered("create") /\ resp'.status = 200) =>
          /\ resp'.id \notin assigned
          /\ resp'.body.id = resp'.id
          /\ Len(todos') = Len(todos) + 1
          /\ todos'[Len(todos')].id = resp'.id
          /\ assigned' = assigned \cup {resp'.id}

\* C9: no two todos in the table share an id, and a create gives its todo an
\* id the table has never assigned before, removed todos included, whatever
\* id the request body carries.
C9_FreshIds == [][C9_Step]_vars

\* A create was answered after an earlier todo had been removed.
C9_Witness ==
    /\ resp.op = "create"
    /\ resp.status = 200
    /\ \E id \in assigned : RowsWithId(todos, id) = {}

\* ------------------------------------------------------------------ C10
\* C10: no two stored users share a username and no two share an email, also
\* when register requests run statement by statement side by side.
C10_UniqueUsers ==
    \A i, j \in 1..Len(users) :
        i # j => /\ users[i].username # users[j].username
                 /\ users[i].email # users[j].email

\* Two requests passed their queries side by side and the table refused the
\* second insert.
C10_Witness ==
    /\ resp.op = "register"
    /\ resp.status = 500
    /\ users # <<>>
====
